---- MODULE Spec2Model ----
(***************************************************************************)
(* Authentication / token lifecycle of the contacts API                    *)
(* (src/src/api/auth.py, src/src/services/auth.py,                         *)
(* src/src/repository/users.py).                                           *)
(*                                                                         *)
(* users    the users table, a row's id being its position                 *)
(* now      the clock, in minutes                                          *)
(* issued   the tokens the clients hold: handed out in responses or mailed *)
(* last     the request just served and its outcome (response, mailed      *)
(*          token)                                                         *)
(* contacts the contacts table, a set of rows                              *)
(* calls    the requests in flight, each at an await of its handler        *)
(* hits     the counters of the rate limiter, per route and client key     *)
(*                                                                         *)
(* A JWT is a record of its claims plus the key it was signed with;        *)
(* jwt.decode is modelled by what it checks: well-formedness, the          *)
(* signature key and the exp claim.                                        *)
(***************************************************************************)
EXTENDS Integers, Sequences, FiniteSets, TLC

VARIABLES users, now, issued, last, contacts, calls, hits

vars == <<users, now, issued, last, contacts, calls, hits>>

---------------------------------------------------------------------------
(* Bounds of the model *)

\* the clock stops advancing here
MaxTime == 60
\* tokens the clients keep (login/refresh responses, mailed links)
MaxTokens == 1
\* the largest id a contact is given
MaxContactId == 2
\* requests served at the same time
MaxCalls == 3
\* requests the limiter counts past the limit of a route
MaxOver == 1
\* minutes the clock advances in one step
TickMinutes == 60

---------------------------------------------------------------------------
(* Program constants *)

ACCESS_TOKEN_EXPIRE_MINUTES == 30
REFRESH_TOKEN_EXPIRE_DAYS == 7
verification_token_expire_hours == 24

SECRET_KEY == "your-secret-key"
OTHER_KEY == "attacker-key"

USER == "user"
ADMIN == "admin"
UserRole == {USER, ADMIN}

Emails == {"a@x.com", "b@x.com"}
Passwords == {"pw123456", "pw654321"}
\* passwords chosen at registration
RegPasswords == {"pw123456"}

Kinds == {"access", "refresh", "verification", "password_reset"}

\* path parameter user_id of the admin routes: in use or not, as the table grows
UserIds == 1..Cardinality(Emails)

NoRole == "none"
NoEmail == "none"

---------------------------------------------------------------------------
(* Tokens *)

\* absence of a token (None)
NoToken == [wf |-> FALSE, key |-> "none", sub |-> NoEmail, type |-> "none",
            role |-> NoRole, exp |-> 0]

\* a string that is not a JWT at all ("invalid_token" in the tests)
Garbled == [wf |-> FALSE, key |-> "garbled", sub |-> NoEmail, type |-> "none",
            role |-> NoRole, exp |-> 0]

\* jwt.encode(to_encode, self.secret_key, algorithm=self.algorithm)
jwt_encode(sub, type, role, exp, key) ==
    [wf |-> TRUE, key |-> key, sub |-> sub, type |-> type, role |-> role, exp |-> exp]

\* tokens an attacker signs with a key of his own, claims of his choice
ForgedTokens ==
    {jwt_encode("a@x.com", k, ADMIN, MaxTime + 1, OTHER_KEY) :
        k \in {"access", "verification"}}

\* jwt.decode that never looks at exp
jwt_decode_no_exp(token, t) ==
    /\ token.wf
    /\ token.key = SECRET_KEY

\* jwt.decode(token, self.secret_key, algorithms=[self.algorithm]) succeeds:
\* parseable, signed with the key, and not (exp < now)
jwt_decode_ok(token, t) ==
    /\ token.wf
    /\ token.key = SECRET_KEY
    /\ ~(token.exp < t)

create_access_token(sub, role, t) ==
    jwt_encode(sub, "access", role, t + ACCESS_TOKEN_EXPIRE_MINUTES, SECRET_KEY)

create_refresh_token(sub, role, t) ==
    jwt_encode(sub, "refresh", role,
               t + REFRESH_TOKEN_EXPIRE_DAYS * 24 * 60, SECRET_KEY)

create_verification_token(sub, t) ==
    jwt_encode(sub, "verification", NoRole,
               t + verification_token_expire_hours * 60, SECRET_KEY)

\* create_password_reset_token tagging the token "reset", a kind that
\* verify_password_reset_token does not look for
create_password_reset_token_reset_type(email, t) ==
    jwt_encode(email, "reset", NoRole, t + 1 * 60, SECRET_KEY)

\* AuthService.create_password_reset_token: timedelta(hours=1)
create_password_reset_token(email, t) ==
    jwt_encode(email, "password_reset", NoRole, t + 1 * 60, SECRET_KEY)

\* tokens this service signed before the first request of a run, for a
\* subject whose record is gone from the table since: access tokens past
\* their exp, exactly at it and before it
PriorAccessTokens ==
    {create_access_token("a@x.com", USER, 0 - ACCESS_TOKEN_EXPIRE_MINUTES - 1),
     create_access_token("a@x.com", USER, 0 - ACCESS_TOKEN_EXPIRE_MINUTES),
     create_access_token("a@x.com", USER, 0 - 1)}

\* a verification token past its exp
PriorVerificationTokens ==
    {create_verification_token("a@x.com",
                               0 - verification_token_expire_hours * 60 - 1)}

\* password-reset tokens before and past their exp
PriorResetTokens ==
    {create_password_reset_token("a@x.com", 0 - 1),
     create_password_reset_token("a@x.com", 0 - 1 * 60 - 1)}

\* AuthService.verify_access_token: the payload, or None
verify_access_token(token, t) ==
    IF ~jwt_decode_ok(token, t) THEN NoToken
    ELSE IF token.type # "access" THEN NoToken
    ELSE token

\* AuthService.verify_token: the payload of any token that decodes, or None
verify_token(token, t) ==
    IF ~jwt_decode_ok(token, t) THEN NoToken ELSE token

\* verify_verification_token without its check of the type claim
verify_verification_token_any_type(token, t) ==
    IF ~jwt_decode_ok(token, t) THEN "Invalid or expired verification token"
    ELSE IF token.sub = NoEmail THEN "Email not found in token"
    ELSE "ok"

\* AuthService.verify_verification_token: the HTTP error raised, or "ok"
verify_verification_token(token, t) ==
    IF ~jwt_decode_ok(token, t) THEN "Invalid or expired verification token"
    ELSE IF token.type # "verification" THEN "Invalid token type"
    ELSE IF token.sub = NoEmail THEN "Email not found in token"
    ELSE "ok"

\* AuthService.verify_password_reset_token: the email, or None
verify_password_reset_token(token, t) ==
    IF ~jwt_decode_ok(token, t) THEN NoEmail
    ELSE IF token.sub = NoEmail \/ token.type # "password_reset" THEN NoEmail
    ELSE token.sub

---------------------------------------------------------------------------
(* Password hasher *)

\* pwd_context.hash: a bcrypt digest, only ever compared through verify
get_password_hash(password) == [scheme |-> "bcrypt", pw |-> password]

verify_password(plain_password, hashed_password) ==
    hashed_password.scheme = "bcrypt" /\ hashed_password.pw = plain_password

---------------------------------------------------------------------------
(* Credential store: the users table, id = position (autoincrement) *)

\* 0 stands for None
get_user_by_email(us, email) ==
    IF \E i \in 1..Len(us) : us[i].email = email
    THEN CHOOSE i \in 1..Len(us) : us[i].email = email
    ELSE 0

get_user_by_id(us, user_id) ==
    IF user_id \in 1..Len(us) THEN user_id ELSE 0

\* repository create_user: raises ValueError("Email already registered"),
\* stood for by the table left as it is, when the email is taken; the new
\* row takes the column defaults refresh_token NULL, is_verified False
create_user(us, email, hashed_password, role) ==
    IF get_user_by_email(us, email) # 0 THEN us
    ELSE Append(us, [email |-> email, hashed_password |-> hashed_password,
                     role |-> role, refresh_token |-> NoToken,
                     is_verified |-> FALSE])

update_token(us, uid, token) ==
    [us EXCEPT ![uid].refresh_token = token]

\* update_user_verified writing the flag to every row
update_user_verified_all(us, user_id, is_verified) ==
    IF get_user_by_id(us, user_id) = 0 THEN us
    ELSE [i \in 1..Len(us) |-> [us[i] EXCEPT !.is_verified = is_verified]]

update_user_verified(us, user_id, is_verified) ==
    IF get_user_by_id(us, user_id) = 0 THEN us
    ELSE [us EXCEPT ![user_id].is_verified = is_verified]

update_user_password(us, user_id, hashed_password) ==
    IF get_user_by_id(us, user_id) = 0 THEN us
    ELSE [us EXCEPT ![user_id].hashed_password = hashed_password]

---------------------------------------------------------------------------
(* Requests and responses *)

\* the request served (op and the fields it carried, user_id and is_active
\* being the parameters of the admin routes, contact_id, first_name, query
\* and skip those of the contacts routes, client the address it came from
\* where the limiter is followed) and its outcome: the status and
\* detail, the tokens returned, the token mailed (register), the id of the
\* user it resolved or created, the contacts returned in the body
Response(op, status, detail) ==
    [op |-> op, status |-> status, detail |-> detail,
     email |-> NoEmail, password |-> "", confirm_password |-> "", role |-> NoRole,
     token |-> NoToken, access_token |-> NoToken, refresh_token |-> NoToken,
     uid |-> 0, user_id |-> 0, is_active |-> FALSE,
     contact_id |-> 0, first_name |-> <<>>, query |-> <<>>, skip |-> 0,
     returned |-> {}, client |-> ""]

\* the clients keep tokens they hold or are handed, up to MaxTokens of them
Kept(tokens) == {S \in SUBSET (issued \cup tokens) : Cardinality(S) <= MaxTokens}

\* what a client can present where a token of the given kind is expected:
\* a token it holds, a string that is no token, a forgery of that kind
Presentable(kind) ==
    issued \cup {Garbled} \cup {f \in ForgedTokens : f.type = kind}

---------------------------------------------------------------------------
(* Authenticator *)

\* authenticate_user answering None, not 403, for an unverified user
authenticate_user_unverified_none(us, email, password) ==
    LET uid == get_user_by_email(us, email) IN
    IF uid = 0 THEN [result |-> "none", uid |-> 0]
    ELSE IF ~verify_password(password, us[uid].hashed_password)
         THEN [result |-> "none", uid |-> 0]
    ELSE IF ~us[uid].is_verified THEN [result |-> "none", uid |-> 0]
    ELSE [result |-> "user", uid |-> uid]

\* authenticate_user without the password check
authenticate_user_any_password(us, email, password) ==
    LET uid == get_user_by_email(us, email) IN
    IF uid = 0 THEN [result |-> "none", uid |-> 0]
    ELSE IF ~us[uid].is_verified THEN [result |-> "forbidden", uid |-> uid]
    ELSE [result |-> "user", uid |-> uid]

\* AuthService.authenticate_user: "none" (None), "forbidden" (raises 403)
\* or "user" with the id of the record found
authenticate_user(us, email, password) ==
    LET uid == get_user_by_email(us, email) IN
    IF uid = 0 THEN [result |-> "none", uid |-> 0]
    ELSE IF ~verify_password(password, us[uid].hashed_password)
         THEN [result |-> "none", uid |-> 0]
    ELSE IF ~us[uid].is_verified THEN [result |-> "forbidden", uid |-> uid]
    ELSE [result |-> "user", uid |-> uid]

\* AuthService.create_tokens: the TokenResponse of a login
create_tokens(user, t) ==
    [access_token |-> create_access_token(user.email, user.role, t),
     refresh_token |-> create_refresh_token(user.email, user.role, t)]

\* AuthService.get_current_user: the id of the user, 0 when it raises
\* credentials_exception (401 "Could not validate credentials")
get_current_user(us, token, t) ==
    IF ~jwt_decode_ok(token, t) THEN 0
    ELSE IF token.sub = NoEmail THEN 0
    ELSE get_user_by_email(us, token.sub)

\* get_current_admin_user letting every role through
get_current_admin_user_any_role(current_user) == TRUE

\* AuthService.get_current_admin_user: passes the user through (TRUE), or
\* raises 403 "Not enough privileges" (FALSE)
get_current_admin_user(current_user) == current_user.role = ADMIN

\* the routes under @limiter.limit("5/minute") that the limiter is followed
\* on: GET / and GET /api/contacts/
LimitedRoutes == {"root", "get_contacts"}

\* addresses requests come from
Clients == {"10.0.0.1", "10.0.0.2"}

\* settings.TESTING, False unless the environment sets it
TESTING == FALSE

\* the key func of the limiter
get_request_key(client) == IF TESTING THEN "test" ELSE client

Keys == {get_request_key(client) : client \in Clients}

\* the storage of the limiter with nothing counted: before the first
\* request, and after limiter.reset()
NoHits == [route \in LimitedRoutes |-> [key \in Keys |-> 0]]

---------------------------------------------------------------------------
Init ==
    /\ users = <<>>
    /\ now = 0
    /\ issued = {}
    /\ last = Response("init", 0, "")
    /\ contacts = {}
    /\ calls = <<>>
    /\ hits = NoHits

\* register without its lookup of the email: create_user alone meets the
\* duplicate, and its ValueError becomes a 500
register_without_lookup(email, password, confirm_password, role) ==
    LET req == [Response("register", 0, "") EXCEPT
                   !.email = email, !.password = password,
                   !.confirm_password = confirm_password, !.role = role]
        hashed_password == get_password_hash(password)
        created == create_user(users, email, hashed_password, role)
        token == create_verification_token(email, now)
    IN IF created = users
       THEN /\ last' = [req EXCEPT !.status = 500,
                                   !.detail = "Internal Server Error"]
            /\ UNCHANGED <<users, now, issued>>
       ELSE /\ users' = created
            /\ issued' \in Kept({token})
            /\ last' = [req EXCEPT !.status = 201, !.uid = Len(created),
                                   !.token = token]
            /\ UNCHANGED now

\* POST /register
register(email, password, confirm_password, role) ==
    LET req == [Response("register", 0, "") EXCEPT
                   !.email = email, !.password = password,
                   !.confirm_password = confirm_password, !.role = role]
    IN
    IF get_user_by_email(users, email) # 0
    THEN /\ last' = [req EXCEPT !.status = 409, !.detail = "Account already exists"]
         /\ UNCHANGED <<users, now, issued>>
    ELSE LET hashed_password == get_password_hash(password)
             created == create_user(users, email, hashed_password, role)
             token == create_verification_token(email, now)
         IN IF created = users
            THEN \* the ValueError of create_user is handled nowhere
                 /\ last' = [req EXCEPT !.status = 500,
                                        !.detail = "Internal Server Error"]
                 /\ UNCHANGED <<users, now, issued>>
            ELSE /\ users' = created
                 /\ issued' \in Kept({token})
                 /\ last' = [req EXCEPT !.status = 201, !.uid = Len(created),
                                        !.token = token]
                 /\ UNCHANGED now

\* POST /login
login(username, password) ==
    LET req == [Response("login", 0, "") EXCEPT
                   !.email = username, !.password = password]
        auth == authenticate_user(users, username, password)
    IN
    IF auth.result = "forbidden"
    THEN /\ last' = [req EXCEPT !.status = 403, !.detail = "Email not verified"]
         /\ UNCHANGED <<users, now, issued>>
    ELSE IF auth.result = "none"
    THEN /\ last' = [req EXCEPT !.status = 401,
                                !.detail = "Incorrect username or password"]
         /\ UNCHANGED <<users, now, issued>>
    ELSE IF ~users[auth.uid].is_verified
    THEN /\ last' = [req EXCEPT !.status = 403, !.detail = "Email not verified"]
         /\ UNCHANGED <<users, now, issued>>
    ELSE LET tokens == create_tokens(users[auth.uid], now) IN
         /\ issued' \in Kept({tokens.access_token, tokens.refresh_token})
         /\ last' = [req EXCEPT !.status = 200, !.uid = auth.uid,
                                !.access_token = tokens.access_token,
                                !.refresh_token = tokens.refresh_token]
         /\ UNCHANGED <<users, now>>

\* POST /refresh
refresh_token(token) ==
    LET req == [Response("refresh", 0, "") EXCEPT !.token = token]
        payload == verify_access_token(token, now)
    IN
    IF payload = NoToken
    THEN /\ last' = [req EXCEPT !.status = 401, !.detail = "Invalid refresh token"]
         /\ UNCHANGED <<users, now, issued>>
    ELSE LET uid == get_user_by_email(users, payload.sub) IN
         IF uid = 0
         THEN /\ last' = [req EXCEPT !.status = 401, !.detail = "User not found"]
              /\ UNCHANGED <<users, now, issued>>
         ELSE LET access == create_access_token(users[uid].email, users[uid].role, now)
                  refresh == create_refresh_token(users[uid].email, NoRole, now)
              IN /\ users' = update_token(users, uid, refresh)
                 /\ issued' \in Kept({access, refresh})
                 /\ last' = [req EXCEPT !.status = 200, !.uid = uid,
                                        !.access_token = access,
                                        !.refresh_token = refresh]
                 /\ UNCHANGED now

\* verify_email answering 400 for a user already verified, as
\* request_verification does
verify_email_already_verified_error(token) ==
    LET req == [Response("verify", 0, "") EXCEPT !.token = token]
        err == verify_verification_token(token, now)
    IN
    IF err # "ok"
    THEN /\ last' = [req EXCEPT !.status = 422, !.detail = err]
         /\ UNCHANGED <<users, now, issued>>
    ELSE LET uid == get_user_by_email(users, token.sub) IN
         IF uid = 0
         THEN /\ last' = [req EXCEPT !.status = 404, !.detail = "User not found"]
              /\ UNCHANGED <<users, now, issued>>
         ELSE IF users[uid].is_verified
         THEN /\ last' = [req EXCEPT !.status = 400, !.uid = uid,
                                     !.detail = "Email already verified"]
              /\ UNCHANGED <<users, now, issued>>
         ELSE /\ users' = update_user_verified(users, uid, TRUE)
              /\ last' = [req EXCEPT !.status = 200, !.uid = uid,
                                     !.detail = "Email verified successfully"]
              /\ UNCHANGED <<now, issued>>

\* POST /verify/{token}
verify_email(token) ==
    LET req == [Response("verify", 0, "") EXCEPT !.token = token]
        err == verify_verification_token(token, now)
    IN
    IF err # "ok"
    THEN /\ last' = [req EXCEPT !.status = 422, !.detail = err]
         /\ UNCHANGED <<users, now, issued>>
    ELSE LET uid == get_user_by_email(users, token.sub) IN
         IF uid = 0
         THEN /\ last' = [req EXCEPT !.status = 404, !.detail = "User not found"]
              /\ UNCHANGED <<users, now, issued>>
         ELSE IF users[uid].is_verified
         THEN /\ last' = [req EXCEPT !.status = 200, !.uid = uid,
                                     !.detail = "Email already verified"]
              /\ UNCHANGED <<users, now, issued>>
         ELSE /\ users' = update_user_verified(users, uid, TRUE)
              /\ last' = [req EXCEPT !.status = 200, !.uid = uid,
                                     !.detail = "Email verified successfully"]
              /\ UNCHANGED <<now, issued>>

\* GET /me behind a gate that answers 404 "User not found", as /refresh
\* does, when the subject has no record
get_me_subject_not_found(token) ==
    LET req == [Response("me", 0, "") EXCEPT !.token = token]
        uid == get_current_user(users, token, now)
    IN
    /\ last' = IF uid # 0
               THEN [req EXCEPT !.status = 200, !.uid = uid,
                                !.email = users[uid].email,
                                !.role = users[uid].role]
               ELSE IF jwt_decode_ok(token, now) /\ token.sub # NoEmail
               THEN [req EXCEPT !.status = 404, !.detail = "User not found"]
               ELSE [req EXCEPT !.status = 401,
                                !.detail = "Could not validate credentials"]
    /\ UNCHANGED <<users, now, issued>>

\* a gate that notes the token it let through in the record of its user
get_me_storing_token(token) ==
    LET req == [Response("me", 0, "") EXCEPT !.token = token]
        uid == get_current_user(users, token, now)
    IN
    /\ last' = IF uid = 0
               THEN [req EXCEPT !.status = 401,
                                !.detail = "Could not validate credentials"]
               ELSE [req EXCEPT !.status = 200, !.uid = uid,
                                !.email = users[uid].email,
                                !.role = users[uid].role]
    /\ users' = IF uid = 0 THEN users ELSE update_token(users, uid, token)
    /\ UNCHANGED <<now, issued>>

\* GET /me, behind Depends(get_current_user)
get_me(token) ==
    LET req == [Response("me", 0, "") EXCEPT !.token = token]
        uid == get_current_user(users, token, now)
    IN
    /\ last' = IF uid = 0
               THEN [req EXCEPT !.status = 401,
                                !.detail = "Could not validate credentials"]
               ELSE [req EXCEPT !.status = 200, !.uid = uid,
                                !.email = users[uid].email,
                                !.role = users[uid].role]
    /\ UNCHANGED <<users, now, issued>>

\* what `await` accepts: a coroutine; a str, a dict or None is not
Awaitable(value) == FALSE

\* the answer of POST /reset-password (the handler of line 217, the first
\* registered for the path): for a known email the handler applies `await` to
\* the str that create_password_reset_token returns, a TypeError, before any
\* mail is queued
reset_password_result(us, email) ==
    IF get_user_by_email(us, email) = 0
    THEN [status |-> 404, detail |-> "User not found"]
    ELSE IF ~Awaitable(create_password_reset_token(email, 0))
    THEN [status |-> 500, detail |-> "Internal Server Error"]
    ELSE [status |-> 200, detail |-> "Password reset email sent"]

\* POST /reset-password
reset_password(email) ==
    LET req == [Response("reset_password", 0, "") EXCEPT !.email = email]
        res == reset_password_result(users, email)
    IN /\ last' = [req EXCEPT !.status = res.status, !.detail = res.detail]
       /\ UNCHANGED <<users, now, issued>>

\* the answer of POST /request-password-reset: the token made for a known
\* email is dropped (sending it is a TODO)
request_password_reset_result(us, email) ==
    IF get_user_by_email(us, email) = 0
    THEN [status |-> 200,
          detail |-> "If your email is registered, you will receive a password reset link"]
    ELSE [status |-> 200,
          detail |-> "If your email is registered, you will receive a password reset link"]

\* POST /request-password-reset
request_password_reset(email) ==
    LET req == [Response("request_password_reset", 0, "") EXCEPT !.email = email]
        res == request_password_reset_result(users, email)
    IN /\ last' = [req EXCEPT !.status = res.status, !.detail = res.detail]
       /\ UNCHANGED <<users, now, issued>>

\* POST /reset-password/{token}: verify_password_reset_token is a plain
\* function, and the handler applies `await` to the str or None it returns,
\* a TypeError whatever the token; the lines after it never run
reset_password_confirm(token, new_password, confirm_password) ==
    LET req == [Response("reset_password_confirm", 0, "") EXCEPT
                   !.token = token, !.password = new_password,
                   !.confirm_password = confirm_password]
        email == verify_password_reset_token(token, now)
    IN
    IF ~Awaitable(email)
    THEN /\ last' = [req EXCEPT !.status = 500, !.detail = "Internal Server Error"]
         /\ UNCHANGED <<users, now, issued>>
    ELSE IF email = NoEmail
    THEN /\ last' = [req EXCEPT !.status = 400,
                                !.detail = "Invalid or expired reset token"]
         /\ UNCHANGED <<users, now, issued>>
    ELSE LET uid == get_user_by_email(users, email) IN
         IF uid = 0
         THEN /\ last' = [req EXCEPT !.status = 404, !.detail = "User not found"]
              /\ UNCHANGED <<users, now, issued>>
         ELSE /\ users' = update_user_password(users, uid,
                                               get_password_hash(new_password))
              /\ last' = [req EXCEPT !.status = 200, !.uid = uid,
                                     !.detail = "Password reset successfully"]
              /\ UNCHANGED <<now, issued>>

\* the admin routes trusting the role claim of the token, not the record
admin_update_token_role(op, token, user_id, new_role, is_active) ==
    LET req == [Response(op, 0, "") EXCEPT
                   !.token = token, !.user_id = user_id, !.role = new_role,
                   !.is_active = is_active]
        uid == get_current_user(users, token, now)
    IN /\ last' = IF uid = 0
                  THEN [req EXCEPT !.status = 401,
                                   !.detail = "Could not validate credentials"]
                  ELSE IF token.role # ADMIN
                  THEN [req EXCEPT !.status = 403, !.uid = uid,
                                   !.detail = "Not enough privileges"]
                  ELSE [req EXCEPT !.status = 500, !.uid = uid,
                                   !.detail = "Internal Server Error"]
       /\ UNCHANGED <<users, now, issued>>

\* the admin routes PUT /users/{user_id}/role and PUT /users/{user_id}/status,
\* behind Depends(get_current_admin_user): past the gate both hand the int
\* user_id to update_user, which sets nothing on it (hasattr is false),
\* commits and raises in db.refresh
admin_update(op, token, user_id, new_role, is_active) ==
    LET req == [Response(op, 0, "") EXCEPT
                   !.token = token, !.user_id = user_id, !.role = new_role,
                   !.is_active = is_active]
        uid == get_current_user(users, token, now)
    IN /\ last' = IF uid = 0
                  THEN [req EXCEPT !.status = 401,
                                   !.detail = "Could not validate credentials"]
                  ELSE IF ~get_current_admin_user(users[uid])
                  THEN [req EXCEPT !.status = 403, !.uid = uid,
                                   !.detail = "Not enough privileges"]
                  ELSE [req EXCEPT !.status = 500, !.uid = uid,
                                   !.detail = "Internal Server Error"]
       /\ UNCHANGED <<users, now, issued>>

\* PUT /users/{user_id}/role
update_user_role(token, user_id, new_role) ==
    admin_update("update_user_role", token, user_id, new_role, FALSE)

\* PUT /users/{user_id}/status
update_user_status(token, user_id, is_active) ==
    admin_update("update_user_status", token, user_id, NoRole, is_active)

\* the clock advances
Tick ==
    /\ now + TickMinutes <= MaxTime
    /\ now' = now + TickMinutes
    /\ last' = Response("tick", 0, "")
    /\ UNCHANGED <<users, issued, contacts, calls, hits>>

\* the routes of api/auth.py, each served in one step; none of them touches
\* the contacts table
Register ==
    /\ \E email \in Emails, password \in RegPasswords,
          confirm_password \in Passwords, role \in UserRole :
           register(email, password, confirm_password, role)
    /\ UNCHANGED <<contacts, calls, hits>>

Login ==
    /\ \E username \in Emails, password \in Passwords : login(username, password)
    /\ UNCHANGED <<contacts, calls, hits>>

Refresh ==
    /\ \E token \in Presentable("access") : refresh_token(token)
    /\ UNCHANGED <<contacts, calls, hits>>

VerifyEmail ==
    /\ \E token \in Presentable("verification") \cup PriorVerificationTokens :
           verify_email(token)
    /\ UNCHANGED <<contacts, calls, hits>>

GetMe ==
    /\ \E token \in Presentable("access") \cup PriorAccessTokens : get_me(token)
    /\ UNCHANGED <<contacts, calls, hits>>

ResetPassword ==
    /\ \E email \in Emails : reset_password(email)
    /\ UNCHANGED <<contacts, calls, hits>>

RequestPasswordReset ==
    /\ \E email \in Emails : request_password_reset(email)
    /\ UNCHANGED <<contacts, calls, hits>>

ResetPasswordConfirm ==
    /\ \E token \in Presentable("password_reset") \cup PriorResetTokens,
          new_password \in Passwords \ RegPasswords,
          confirm_password \in Passwords :
           reset_password_confirm(token, new_password, confirm_password)
    /\ UNCHANGED <<contacts, calls, hits>>

UpdateUserRole ==
    /\ \E token \in Presentable("access"), user_id \in UserIds,
          new_role \in UserRole :
           update_user_role(token, user_id, new_role)
    /\ UNCHANGED <<contacts, calls, hits>>

UpdateUserStatus ==
    /\ \E token \in Presentable("access"), user_id \in UserIds,
          is_active \in BOOLEAN :
           update_user_status(token, user_id, is_active)
    /\ UNCHANGED <<contacts, calls, hits>>

Next ==
    \/ Register
    \/ Login
    \/ Refresh
    \/ VerifyEmail
    \/ GetMe
    \/ ResetPassword
    \/ RequestPasswordReset
    \/ ResetPasswordConfirm
    \/ UpdateUserRole
    \/ UpdateUserStatus

\* the requests of one instant: the clock stands still
Spec == Init /\ [][Next]_vars

NextClock ==
    \/ Next
    \/ Tick

\* the requests spread over time
SpecClock == Init /\ [][NextClock]_vars

---------------------------------------------------------------------------
(* Contacts: api/contacts.py over repository/contacts.py *)

\* first names of contacts, and search strings, as sequences of characters
Names == {<<"A", "n">>, <<"B", "o">>}

Queries == {<<"a">>, <<"B", "O">>}

\* a field the body of an update leaves unset
Unset == <<>>

lower(s) ==
    [i \in 1..Len(s) |->
        CASE s[i] = "A" -> "a" [] s[i] = "B" -> "b" [] s[i] = "O" -> "o"
          [] OTHER -> s[i]]

\* column.ilike("%query%"): query occurs in value, letter case aside
ilike(value, query) ==
    \E i \in 0..(Len(value) - Len(query)) :
        SubSeq(lower(value), i + 1, i + Len(query)) = lower(query)

ContactIds == 1..MaxContactId

\* the id an INSERT gives the row: one above the largest id in the table
\* (an SQLite INTEGER PRIMARY KEY)
next_contact_id(cs) ==
    IF cs = {} THEN 1
    ELSE 1 + CHOOSE m \in {c.id : c \in cs} : \A c \in cs : c.id <= m

\* repository get_contacts: the rows of the owner (no ORDER BY)
get_contacts_of(cs, user_id) == {c \in cs : c.owner_id = user_id}

\* get_contact selecting by id alone
get_contact_of_any_owner(cs, contact_id, user_id) ==
    {c \in cs : c.id = contact_id}

\* repository get_contact: the row with that id and that owner, as a set
get_contact_of(cs, contact_id, user_id) ==
    {c \in cs : c.id = contact_id /\ c.owner_id = user_id}

\* repository search_contacts: the owner's rows the search string occurs in
search_contacts_of(cs, user_id, query) ==
    {c \in get_contacts_of(cs, user_id) : ilike(c.first_name, query)}

\* the dependency Depends(get_current_user) of every contacts route: the id
\* of the caller, 0 when OAuth2PasswordBearer finds no bearer token or the
\* gate raises
contacts_caller(token) ==
    IF token = NoToken THEN 0 ELSE get_current_user(users, token, now)

\* the 401 of a contacts route: of OAuth2PasswordBearer for a request with
\* no Authorization header, of the gate otherwise
Unauthorized(req) ==
    [req EXCEPT !.status = 401,
                !.detail = IF req.token = NoToken THEN "Not authenticated"
                           ELSE "Could not validate credentials"]

\* POST /api/contacts/
create_contact(token, first_name) ==
    LET req == [Response("create_contact", 0, "") EXCEPT
                   !.token = token, !.first_name = first_name]
        uid == contacts_caller(token)
        new == [id |-> next_contact_id(contacts), owner_id |-> uid,
                first_name |-> first_name]
    IN
    /\ IF uid = 0
       THEN /\ last' = Unauthorized(req)
            /\ contacts' = contacts
       ELSE /\ new.id <= MaxContactId
            /\ contacts' = contacts \cup {new}
            /\ last' = [req EXCEPT !.status = 201, !.uid = uid,
                                   !.contact_id = new.id, !.returned = {new}]
    /\ UNCHANGED <<users, now, issued, calls>>

\* GET /api/contacts/?skip=&limit=100: the rows the query leaves after the
\* first skip of them, in an order the query does not fix
get_contacts(client, token, skip) ==
    LET req == [Response("get_contacts", 0, "") EXCEPT
                   !.client = client, !.token = token, !.skip = skip]
        uid == contacts_caller(token)
        own == get_contacts_of(contacts, uid)
    IN
    /\ IF uid = 0
       THEN last' = Unauthorized(req)
       ELSE \E skipped \in SUBSET own :
               /\ Cardinality(skipped) = IF skip < Cardinality(own)
                                         THEN skip ELSE Cardinality(own)
               /\ last' = [req EXCEPT !.status = 200, !.uid = uid,
                                      !.returned = own \ skipped]
    /\ UNCHANGED <<users, now, issued, contacts, calls>>

\* search_contacts declared without Depends(get_current_user): it searches
\* the whole table for whoever asks
search_contacts_ungated(token, query) ==
    LET req == [Response("search_contacts", 0, "") EXCEPT
                   !.token = token, !.query = query]
    IN
    /\ last' = [req EXCEPT !.status = 200,
                           !.returned = {c \in contacts :
                                           ilike(c.first_name, query)}]
    /\ UNCHANGED <<users, now, issued, contacts, calls>>

\* GET /api/contacts/search?query=
search_contacts(token, query) ==
    LET req == [Response("search_contacts", 0, "") EXCEPT
                   !.token = token, !.query = query]
        uid == contacts_caller(token)
    IN
    /\ last' = IF uid = 0
               THEN Unauthorized(req)
               ELSE [req EXCEPT !.status = 200, !.uid = uid,
                                !.returned =
                                    search_contacts_of(contacts, uid, query)]
    /\ UNCHANGED <<users, now, issued, contacts, calls>>

\* GET /api/contacts/{contact_id}
get_contact(token, contact_id) ==
    LET req == [Response("get_contact", 0, "") EXCEPT
                   !.token = token, !.contact_id = contact_id]
        uid == contacts_caller(token)
        found == get_contact_of(contacts, contact_id, uid)
    IN
    /\ last' = IF uid = 0
               THEN Unauthorized(req)
               ELSE IF found = {}
               THEN [req EXCEPT !.status = 404, !.uid = uid,
                                !.detail = "Contact not found"]
               ELSE [req EXCEPT !.status = 200, !.uid = uid,
                                !.returned = found]
    /\ UNCHANGED <<users, now, issued, contacts, calls>>

\* PUT /api/contacts/{contact_id}: the fields the body sets are written
update_contact(token, contact_id, first_name) ==
    LET req == [Response("update_contact", 0, "") EXCEPT
                   !.token = token, !.contact_id = contact_id,
                   !.first_name = first_name]
        uid == contacts_caller(token)
        found == get_contact_of(contacts, contact_id, uid)
        updated == {IF first_name = Unset THEN c
                    ELSE [c EXCEPT !.first_name = first_name] : c \in found}
    IN
    /\ IF uid = 0
       THEN /\ last' = Unauthorized(req)
            /\ contacts' = contacts
       ELSE IF found = {}
       THEN /\ last' = [req EXCEPT !.status = 404, !.uid = uid,
                                   !.detail = "Contact not found"]
            /\ contacts' = contacts
       ELSE /\ contacts' = (contacts \ found) \cup updated
            /\ last' = [req EXCEPT !.status = 200, !.uid = uid,
                                   !.returned = updated]
    /\ UNCHANGED <<users, now, issued, calls>>

\* DELETE /api/contacts/{contact_id}
delete_contact(token, contact_id) ==
    LET req == [Response("delete_contact", 0, "") EXCEPT
                   !.token = token, !.contact_id = contact_id]
        uid == contacts_caller(token)
        found == get_contact_of(contacts, contact_id, uid)
    IN
    /\ IF uid = 0
       THEN /\ last' = Unauthorized(req)
            /\ contacts' = contacts
       ELSE IF found = {}
       THEN /\ last' = [req EXCEPT !.status = 404, !.uid = uid,
                                   !.detail = "Contact not found"]
            /\ contacts' = contacts
       ELSE /\ contacts' = contacts \ found
            /\ last' = [req EXCEPT !.status = 204, !.uid = uid]
    /\ UNCHANGED <<users, now, issued, calls>>

\* the record of a registered, verified user who has logged in at time t
LoggedIn(email, password, role, t) ==
    [email |-> email, hashed_password |-> get_password_hash(password),
     role |-> role,
     refresh_token |-> create_refresh_token(email, role, t),
     is_verified |-> TRUE]

\* the service with two users registered, verified and logged in, an ADMIN
\* and a USER, their clients holding the access tokens of those logins, and
\* no contact stored yet
InitContacts ==
    /\ users = <<LoggedIn("a@x.com", "pw123456", ADMIN, 0),
                 LoggedIn("b@x.com", "pw123456", USER, 0)>>
    /\ now = 0
    /\ issued = {create_access_token("a@x.com", ADMIN, 0),
                 create_access_token("b@x.com", USER, 0)}
    /\ last = Response("init", 0, "")
    /\ contacts = {}
    /\ calls = <<>>
    /\ hits = NoHits

\* what reaches a contacts route: a token a client holds, a string that is
\* no token, or no Authorization header at all
ContactTokens == issued \cup {Garbled, NoToken}

CreateContact ==
    /\ \E token \in ContactTokens, first_name \in Names :
           create_contact(token, first_name)
    /\ UNCHANGED hits

GetContacts ==
    /\ \E client \in Clients, token \in ContactTokens, skip \in 0..1 :
           get_contacts(client, token, skip)
    /\ UNCHANGED hits

SearchContacts ==
    /\ \E token \in ContactTokens, query \in Queries : search_contacts(token, query)
    /\ UNCHANGED hits

GetContact ==
    /\ \E token \in ContactTokens, contact_id \in ContactIds :
           get_contact(token, contact_id)
    /\ UNCHANGED hits

UpdateContact ==
    /\ \E token \in ContactTokens, contact_id \in ContactIds,
          first_name \in Names \cup {Unset} :
           update_contact(token, contact_id, first_name)
    /\ UNCHANGED hits

DeleteContact ==
    /\ \E token \in ContactTokens, contact_id \in ContactIds :
           delete_contact(token, contact_id)
    /\ UNCHANGED hits

\* access tokens signed while the stored roles of the two users were the
\* other way round, not yet expired
StaleRoleTokens ==
    {create_access_token("a@x.com", USER, 0 - 1),
     create_access_token("b@x.com", ADMIN, 0 - 1)}

\* PUT /users/{user_id}/role reached with the tokens of the logins and with
\* the stale ones
UpdateUserRoleStale ==
    /\ \E token \in issued \cup StaleRoleTokens, user_id \in UserIds,
          new_role \in UserRole :
           update_user_role(token, user_id, new_role)
    /\ UNCHANGED <<contacts, calls, hits>>

NextContacts ==
    \/ CreateContact
    \/ GetContacts
    \/ SearchContacts
    \/ GetContact
    \/ UpdateContact
    \/ DeleteContact
    \/ GetMe
    \/ UpdateUserRoleStale

\* the routes behind the gate serving two logged-in users
SpecContacts == InitContacts /\ [][NextContacts]_vars

---------------------------------------------------------------------------
(* Rate limiting: services/limiter.py and the @limiter.limit decorators *)

\* the specifications above follow requests the limiter lets through and
\* leave its counters alone; here the counters of two routes are followed
\* through one window

\* "5/minute"
LimitPerMinute == 5

\* a hit on the counter of a route for a key
hit(h, route, key) == [h EXCEPT ![route][key] = @ + 1]

\* the hit stays within the limit
within_limit(h, route, key) == h[route][key] < LimitPerMinute

\* _rate_limit_exceeded_handler
RateLimitExceeded(req) ==
    [req EXCEPT !.status = 429, !.detail = "Rate limit exceeded: 5 per 1 minute"]

\* GET /, under @limiter.limit("5/minute")
read_root(client) ==
    LET req == [Response("root", 0, "") EXCEPT !.client = client]
        key == get_request_key(client)
    IN
    /\ hits["root"][key] < LimitPerMinute + MaxOver
    /\ hits' = hit(hits, "root", key)
    /\ last' = IF within_limit(hits, "root", key)
               THEN [req EXCEPT !.status = 200,
                                !.detail = "Welcome to Contact API"]
               ELSE RateLimitExceeded(req)
    /\ UNCHANGED <<users, now, issued, contacts, calls>>

\* GET /api/contacts/ with its decorator: the limiter wraps the endpoint
\* function, which is called once the dependencies of the route are
\* resolved; a request Depends(get_current_user) refuses never reaches it
limited_get_contacts(client, token) ==
    LET req == [Response("get_contacts", 0, "") EXCEPT
                   !.client = client, !.token = token]
        key == get_request_key(client)
    IN
    IF contacts_caller(token) = 0
    THEN /\ get_contacts(client, token, 0)
         /\ hits' = hits
    ELSE /\ hits["get_contacts"][key] < LimitPerMinute + MaxOver
         /\ hits' = hit(hits, "get_contacts", key)
         /\ IF within_limit(hits, "get_contacts", key)
            THEN get_contacts(client, token, 0)
            ELSE /\ last' = RateLimitExceeded(req)
                 /\ UNCHANGED <<users, now, issued, contacts, calls>>

\* limiter.reset()
reset_limiter ==
    /\ hits' = NoHits
    /\ last' = Response("limiter_reset", 0, "")
    /\ UNCHANGED <<users, now, issued, contacts, calls>>

ReadRoot == \E client \in Clients : read_root(client)

LimitedGetContacts ==
    \E client \in Clients, token \in ContactTokens :
        limited_get_contacts(client, token)

NextLimit ==
    \/ ReadRoot
    \/ LimitedGetContacts
    \/ reset_limiter

\* two limited routes serving two clients within one window
SpecLimit == InitContacts /\ [][NextLimit]_vars

---------------------------------------------------------------------------
(* Requests in flight: register and refresh, one step per database await *)

\* a request in flight: the handler it is in (op), the await it stands at
\* (pc), what it was sent (email, token), what its session has read (uid,
\* loaded: the refresh_token of the row as loaded), the tokens it has made,
\* its answer once it is done, the exception behind a 500 (error), and the
\* place of its commit among the commits (0: none)
Call(op, pc) ==
    [op |-> op, pc |-> pc, email |-> NoEmail, token |-> NoToken, uid |-> 0,
     loaded |-> NoToken, access_token |-> NoToken, refresh_token |-> NoToken,
     status |-> 0, detail |-> "", error |-> "", commit |-> 0]

Done(call, status, detail) ==
    [call EXCEPT !.pc = "done", !.status = status, !.detail = detail]

\* the number the next commit takes
next_commit(cs) ==
    1 + Cardinality({c \in 1..Len(cs) : cs[c].commit # 0})

\* POST /register arrives: a valid body for a plain USER
RegisterBegin(email) ==
    /\ Len(calls) < MaxCalls
    /\ calls' = Append(calls, [Call("register", "get_user_by_email") EXCEPT
                                  !.email = email])
    /\ UNCHANGED <<users, now, issued, last, contacts, hits>>

\* register: exist_user = await users_repo.get_user_by_email(db, body.email)
RegisterLookup(c) ==
    /\ calls[c].op = "register"
    /\ calls[c].pc = "get_user_by_email"
    /\ calls' = [calls EXCEPT ![c] =
                    IF get_user_by_email(users, calls[c].email) # 0
                    THEN Done(calls[c], 409, "Account already exists")
                    ELSE [calls[c] EXCEPT !.pc = "create_user"]]
    /\ UNCHANGED <<users, now, issued, last, contacts, hits>>

\* create_user: existing_user = await get_user_by_email(db, email), and
\* ValueError("Email already registered"), which register does not catch
RegisterCreateUser(c) ==
    /\ calls[c].op = "register"
    /\ calls[c].pc = "create_user"
    /\ calls' = [calls EXCEPT ![c] =
                    IF get_user_by_email(users, calls[c].email) # 0
                    THEN [Done(calls[c], 500, "Internal Server Error") EXCEPT
                             !.error = "ValueError"]
                    ELSE [calls[c] EXCEPT !.pc = "commit"]]
    /\ UNCHANGED <<users, now, issued, last, contacts, hits>>

\* create_user: db.add(user); await db.commit(). The column users.email is
\* unique=True: the INSERT of an email the table holds raises IntegrityError,
\* which nothing catches
RegisterCommit(c) ==
    /\ calls[c].op = "register"
    /\ calls[c].pc = "commit"
    /\ IF get_user_by_email(users, calls[c].email) # 0
       THEN /\ calls' = [calls EXCEPT ![c] =
                            [Done(calls[c], 500, "Internal Server Error") EXCEPT
                                !.error = "IntegrityError"]]
            /\ users' = users
       ELSE /\ users' = create_user(users, calls[c].email,
                                    get_password_hash("pw123456"), USER)
            /\ calls' = [calls EXCEPT ![c] =
                            [Done(calls[c], 201, "") EXCEPT
                                !.uid = Len(users) + 1,
                                !.commit = next_commit(calls)]]
    /\ UNCHANGED <<now, issued, last, contacts, hits>>

\* POST /refresh arrives: payload = await verify_access_token(token), which
\* awaits nothing itself
RefreshBegin(token) ==
    /\ Len(calls) < MaxCalls
    /\ calls' = Append(calls,
                  IF verify_access_token(token, now) = NoToken
                  THEN Done([Call("refresh", "") EXCEPT !.token = token],
                            401, "Invalid refresh token")
                  ELSE [Call("refresh", "get_user_by_email") EXCEPT
                           !.token = token, !.email = token.sub])
    /\ UNCHANGED <<users, now, issued, last, contacts, hits>>

\* refresh_token: user = await get_user_by_email(db, email), then the two
\* tokens are made, and user.refresh_token is assigned
RefreshRead(c) ==
    /\ calls[c].op = "refresh"
    /\ calls[c].pc = "get_user_by_email"
    /\ LET uid == get_user_by_email(users, calls[c].email) IN
       calls' = [calls EXCEPT ![c] =
                    IF uid = 0
                    THEN Done(calls[c], 401, "User not found")
                    ELSE [calls[c] EXCEPT
                             !.pc = "commit", !.uid = uid,
                             !.loaded = users[uid].refresh_token,
                             !.access_token =
                                 create_access_token(users[uid].email,
                                                     users[uid].role, now),
                             !.refresh_token =
                                 create_refresh_token(users[uid].email,
                                                      NoRole, now)]]
    /\ UNCHANGED <<users, now, issued, last, contacts, hits>>

\* what the commit of a session writes to the refresh_token of its row: the
\* value assigned when it differs from the value the session loaded; the
\* unit of work emits no UPDATE for an attribute with no net change
committed_token(us, call) ==
    IF call.refresh_token = call.loaded THEN us[call.uid].refresh_token
    ELSE call.refresh_token

\* update_token: await db.commit(), and the handler returns the tokens
RefreshCommit(c) ==
    /\ calls[c].op = "refresh"
    /\ calls[c].pc = "commit"
    /\ users' = update_token(users, calls[c].uid, committed_token(users, calls[c]))
    /\ calls' = [calls EXCEPT ![c] =
                    [Done(calls[c], 200, "") EXCEPT
                        !.commit = next_commit(calls)]]
    /\ UNCHANGED <<now, issued, last, contacts, hits>>

\* the clock advances while requests are in flight
TickRace ==
    /\ now + TickMinutes <= MaxTime
    /\ now' = now + TickMinutes
    /\ UNCHANGED <<users, issued, last, contacts, calls, hits>>

\* one user registered, verified and logged in, holding the access token of
\* the login; the other email free
InitRace ==
    /\ users = <<LoggedIn("b@x.com", "pw123456", USER, 0)>>
    /\ now = 0
    /\ issued = {create_access_token("b@x.com", USER, 0)}
    /\ last = Response("init", 0, "")
    /\ contacts = {}
    /\ calls = <<>>
    /\ hits = NoHits

NextRace ==
    \/ \E email \in Emails : RegisterBegin(email)
    \/ \E c \in 1..Len(calls) : RegisterLookup(c)
    \/ \E c \in 1..Len(calls) : RegisterCreateUser(c)
    \/ \E c \in 1..Len(calls) : RegisterCommit(c)
    \/ \E token \in issued \cup {Garbled} : RefreshBegin(token)
    \/ \E c \in 1..Len(calls) : RefreshRead(c)
    \/ \E c \in 1..Len(calls) : RefreshCommit(c)
    \/ TickRace

\* register and refresh requests served concurrently, one await at a time
SpecRace == InitRace /\ [][NextRace]_vars

---------------------------------------------------------------------------
(* Properties *)

\* the record a token's subject names, 0 when there is none
Subject(us, token) == get_user_by_email(us, token.sub)

NoTokensReturned(r) == r.access_token = NoToken /\ r.refresh_token = NoToken

\* C1: the gate answers 401, and resolves no user, for every token whose
\* kind tag is not "access", however valid the token otherwise is
C1_GateRejectsNonAccessToken ==
    (last.op = "me" /\ last.token.type # "access")
        => (last.status = 401 /\ last.uid = 0)

\* C2: POST /refresh given a token whose kind is not "refresh" answers 401,
\* returns no tokens and leaves every stored refresh_token as it was
C2_RefreshRejectsWrongKind ==
    [][(last'.op = "refresh" /\ last'.token.type # "refresh")
         => /\ last'.status = 401
            /\ NoTokensReturned(last')
            /\ Len(users') = Len(users)
            /\ \A i \in 1..Len(users) :
                   users'[i].refresh_token = users[i].refresh_token]_vars

\* C3: POST /refresh given the unexpired refresh token a login returned for an
\* existing user answers with a new access and a new refresh token, and the
\* user's stored refresh_token is then the refresh token returned
C3_RefreshAcceptsLoginRefreshToken ==
    (/\ last.op = "refresh"
     /\ last.token.type = "refresh"
     /\ last.token.role # NoRole
     /\ jwt_decode_ok(last.token, now)
     /\ Subject(users, last.token) # 0)
        => /\ last.status = 200
           /\ last.access_token.type = "access"
           /\ last.refresh_token.type = "refresh"
           /\ users[Subject(users, last.token)].refresh_token = last.refresh_token

\* C4: a refresh succeeds only with the token stored in the user's
\* refresh_token field, and a token a refresh has just succeeded with is
\* answered 401 when it is presented again
C4_RefreshTokenRotation ==
    [][/\ (last'.op = "refresh" /\ last'.status = 200)
            => users[last'.uid].refresh_token = last'.token
       /\ (/\ last.op = "refresh" /\ last.status = 200
           /\ last'.op = "refresh" /\ last'.token = last.token)
            => last'.status = 401]_vars

\* C5: a successful login returns an access and a refresh token, and the
\* user's stored refresh_token is then the refresh token returned
C5_LoginPersistsRefreshToken ==
    (last.op = "login" /\ last.status = 200)
        => /\ last.access_token.type = "access"
           /\ last.refresh_token.type = "refresh"
           /\ users[last.uid].refresh_token = last.refresh_token

\* the login just answered was for an existing, unverified user and carried
\* the password of that user
UnverifiedLogin(us, r) ==
    LET uid == get_user_by_email(us, r.email) IN
    /\ r.op = "login"
    /\ uid # 0
    /\ ~us[uid].is_verified
    /\ verify_password(r.password, us[uid].hashed_password)

\* C6: a login of an unverified user with the right password answers 403,
\* returns no token and changes no record; and whenever a login returns or
\* hands out a token, the user is verified at that moment
C6_LoginUnverifiedForbidden ==
    [][/\ UnverifiedLogin(users, last')
            => /\ last'.status = 403
               /\ NoTokensReturned(last')
               /\ users' = users
               /\ issued' = issued
       /\ (last'.op = "login" /\ (~NoTokensReturned(last') \/ issued' # issued))
            => /\ get_user_by_email(users, last'.email) # 0
               /\ users[get_user_by_email(users, last'.email)].is_verified]_vars

C6_Witness == UnverifiedLogin(users, last) /\ last.status = 403

\* the login just answered named no user, or carried a password that does not
\* verify against the stored hash
BadCredentials(us, r) ==
    LET uid == get_user_by_email(us, r.email) IN
    /\ r.op = "login"
    /\ \/ uid = 0
       \/ ~verify_password(r.password, us[uid].hashed_password)

\* C7: a login with an unknown email or a wrong password answers 401 with
\* one and the same detail, returns no token and changes no record
C7_LoginBadCredentials ==
    [][BadCredentials(users, last')
         => /\ last'.status = 401
            /\ last'.detail = "Incorrect username or password"
            /\ last'.uid = 0
            /\ NoTokensReturned(last')
            /\ users' = users
            /\ issued' = issued]_vars

\* a wrong password for a user that exists and is verified
C7_Witness ==
    /\ BadCredentials(users, last)
    /\ last.status = 401
    /\ get_user_by_email(users, last.email) # 0
    /\ users[get_user_by_email(users, last.email)].is_verified

\* C8: a registration with an email that already has a record answers 409,
\* creates no record, hands out no token and leaves every record as it was
C8_DuplicateRegistration ==
    [][(last'.op = "register" /\ get_user_by_email(users, last'.email) # 0)
         => /\ last'.status = 409
            /\ last'.token = NoToken
            /\ users' = users
            /\ issued' = issued]_vars

C8_Witness ==
    /\ last.op = "register"
    /\ last.status = 409
    /\ get_user_by_email(users, last.email) # 0

\* C9: a registration whose password differs from confirm_password answers
\* with a validation error (400 or 422), creates no record and issues no
\* verification token
C9_RegisterPasswordConfirmation ==
    [][(last'.op = "register" /\ last'.password # last'.confirm_password)
         => /\ last'.status \in {400, 422}
            /\ last'.token = NoToken
            /\ users' = users
            /\ issued' = issued]_vars

\* C10: every record a registration creates has role USER and is not
\* verified, whatever role the request carried (so that registrations alone
\* never make an ADMIN)
C10_RegisterCreatesPlainUser ==
    (last.op = "register" /\ last.status = 201)
        => (users[last.uid].role = USER /\ ~users[last.uid].is_verified)

\* every record is there in the next state with its is_verified flag as it was
VerifiedFlagsUnchanged ==
    /\ Len(users') = Len(users)
    /\ \A i \in 1..Len(users) : users'[i].is_verified = users[i].is_verified

\* every record is there in the next state with its password hash as it was
PasswordHashesUnchanged ==
    /\ Len(users') = Len(users)
    /\ \A i \in 1..Len(users) : users'[i].hashed_password = users[i].hashed_password

\* C11: a verification with a valid verification token of a user already
\* verified answers 200 "Email already verified" and changes no record; and
\* a successful verification repeated with the same token answers 200 again
\* and leaves the table as the first left it
C11_VerifyEmailIdempotent ==
    [][/\ (/\ last'.op = "verify"
           /\ verify_verification_token(last'.token, now) = "ok"
           /\ Subject(users, last'.token) # 0
           /\ users[Subject(users, last'.token)].is_verified)
            => /\ last'.status = 200
               /\ last'.detail = "Email already verified"
               /\ users' = users
       /\ (/\ last.op = "verify" /\ last.status = 200
           /\ last'.op = "verify" /\ last'.token = last.token)
            => /\ last'.status = 200
               /\ users' = users]_vars

C11_Witness ==
    /\ last.op = "verify"
    /\ last.status = 200
    /\ last.detail = "Email already verified"
    /\ last.token.type = "verification"
    /\ users[last.uid].is_verified

\* a token that is garbled, signed with another key, past its exp, or of a
\* kind other than "verification"
NotAVerificationToken(token, t) ==
    \/ ~token.wf
    \/ token.key # SECRET_KEY
    \/ token.exp < t
    \/ token.type # "verification"

\* C12: a verification given a token that is garbled, wrongly signed,
\* expired or of another kind answers 422 and leaves the is_verified flag of
\* every user as it was
C12_VerifyEmailRejectsBadToken ==
    [][(last'.op = "verify" /\ NotAVerificationToken(last'.token, now))
         => /\ last'.status = 422
            /\ VerifiedFlagsUnchanged]_vars

\* an unexpired access token of an existing user, refused
C12_Witness ==
    /\ last.op = "verify"
    /\ last.status = 422
    /\ last.token.type = "access"
    /\ jwt_decode_ok(last.token, now)
    /\ Subject(users, last.token) # 0

\* the login just answered was for an existing user and carried the password
\* of that user
RightPasswordLogin(us, r) ==
    /\ r.op = "login"
    /\ get_user_by_email(us, r.email) # 0
    /\ verify_password(r.password,
                       us[get_user_by_email(us, r.email)].hashed_password)

C14_ResetRequestEnumerationResistance ==
    \A e1 \in Emails, e2 \in Emails :
        /\ reset_password_result(users, e1) = reset_password_result(users, e2)
        /\ request_password_reset_result(users, e1) =
               request_password_reset_result(users, e2)

\* C15: a password-reset confirmation whose new_password differs from
\* confirm_password, valid reset token or not, answers with a validation
\* error (400 or 422) and leaves every password hash as it was
C15_ResetConfirmationCheck ==
    [][(/\ last'.op = "reset_password_confirm"
        /\ last'.password # last'.confirm_password)
         => /\ last'.status \in {400, 422}
            /\ PasswordHashesUnchanged]_vars

\* C16: a confirmation carrying a valid, unexpired password_reset token of an
\* existing user, and a new password n given twice, succeeds, and the user's
\* stored hash then verifies n and no other password
C16_ResetTakesEffect ==
    [][(/\ last'.op = "reset_password_confirm"
        /\ last'.password = last'.confirm_password
        /\ verify_password_reset_token(last'.token, now) # NoEmail
        /\ Subject(users, last'.token) # 0)
         => /\ last'.status = 200
            /\ verify_password(last'.password,
                   users'[Subject(users, last'.token)].hashed_password)
            /\ \A old \in Passwords \ {last'.password} :
                   ~verify_password(old,
                       users'[Subject(users, last'.token)].hashed_password)]_vars

\* a token that is garbled, signed with another key, past its exp, or of a
\* kind other than "password_reset"
NotAResetToken(token, t) ==
    \/ ~token.wf
    \/ token.key # SECRET_KEY
    \/ token.exp < t
    \/ token.type # "password_reset"

\* C17: a confirmation given a token that is garbled, wrongly signed, expired
\* or of another kind answers 400 or 422 and leaves every password hash as
\* it was; given a valid token whose subject has no record it answers 404
C17_ResetTokenValidation ==
    [][/\ (/\ last'.op = "reset_password_confirm"
           /\ NotAResetToken(last'.token, now))
            => /\ last'.status \in {400, 422}
               /\ PasswordHashesUnchanged
       /\ (/\ last'.op = "reset_password_confirm"
           /\ ~NotAResetToken(last'.token, now)
           /\ Subject(users, last'.token) = 0)
            => last'.status = 404]_vars

\* the operations that consume a token: the gate (GET /me and the admin
\* routes behind it), /refresh, /verify and the password-reset confirmation
TokenOps ==
    {"me", "update_user_role", "update_user_status", "refresh", "verify",
     "reset_password_confirm"}

\* the operation just served took no user from its token and did not succeed
TokenRejected(r) == r.uid = 0 /\ r.status # 200

C19_GateMissingSubject ==
    (/\ last.op = "me"
     /\ \/ ~jwt_decode_ok(last.token, now)
        \/ Subject(users, last.token) = 0)
        => /\ last.status = 401
           /\ last.detail = "Could not validate credentials"
           /\ last.uid = 0
           /\ last.email = NoEmail
           /\ last.role = NoRole

\* an unexpired access token signed with the key, its subject without a record
C19_Witness ==
    /\ last.op = "me"
    /\ jwt_decode_ok(last.token, now)
    /\ last.token.type = "access"
    /\ last.token.sub \in Emails
    /\ Subject(users, last.token) = 0
    /\ last.status = 401

\* C20: PUT /users/{user_id}/role and PUT /users/{user_id}/status called with
\* a token the gate accepts for a user whose role is not ADMIN answer 403 and
\* change no record, whatever user_id and new value
C20_AdminOnly ==
    [][(/\ last'.op \in {"update_user_role", "update_user_status"}
        /\ get_current_user(users, last'.token, now) # 0
        /\ users[get_current_user(users, last'.token, now)].role # ADMIN)
         => /\ last'.status = 403
            /\ users' = users]_vars

\* a USER asking for the ADMIN role for its own record, refused
C20_Witness ==
    /\ last.op = "update_user_role"
    /\ last.status = 403
    /\ last.uid # 0
    /\ users[last.uid].role = USER
    /\ last.user_id = last.uid
    /\ last.role = ADMIN

\* C21: PUT /users/{user_id}/role called by a user whose role is ADMIN: when
\* a record with that id exists the call succeeds and the stored role of that
\* record becomes new_role, nothing else changing; when none exists it answers
\* 404 and changes nothing
C21_AdminRoleUpdatePersists ==
    [][(/\ last'.op = "update_user_role"
        /\ get_current_user(users, last'.token, now) # 0
        /\ users[get_current_user(users, last'.token, now)].role = ADMIN)
         => IF last'.user_id \in 1..Len(users)
            THEN /\ last'.status = 200
                 /\ users' = [users EXCEPT ![last'.user_id].role = last'.role]
            ELSE /\ last'.status = 404
                 /\ users' = users]_vars

ContactOps ==
    {"create_contact", "get_contacts", "search_contacts", "get_contact",
     "update_contact", "delete_contact"}

\* C24: a contacts operation called with no bearer token, or with a token
\* the gate rejects, answers 401, returns no contact and leaves the contacts
\* table as it was
C24_ContactsRequireAuthentication ==
    [][(/\ last'.op \in ContactOps
        /\ \/ last'.token = NoToken
           \/ get_current_user(users, last'.token, now) = 0)
         => /\ last'.status = 401
            /\ last'.returned = {}
            /\ contacts' = contacts]_vars

\* a delete of a stored contact asked for with no Authorization header
C24_Witness ==
    /\ last.op = "delete_contact"
    /\ last.token = NoToken
    /\ last.status = 401
    /\ \E c \in contacts : c.id = last.contact_id

\* the routes behind get_current_admin_user
AdminOps == {"update_user_role", "update_user_status"}

\* C25: a request that goes through the gate (get_current_user, and
\* get_current_admin_user on the admin routes) leaves every record of the
\* users table as it was, whether the gate lets it through or raises; and a
\* request the gate refuses, or one that does nothing but pass the gate
\* (GET /me), leaves every contact as it was too
C25_GateHasNoSideEffects ==
    [][(last'.op \in {"me"} \cup AdminOps \cup ContactOps)
         => /\ users' = users
            /\ (last'.op = "me" \/ last'.status \in {401, 403})
                 => contacts' = contacts]_vars

\* the gate has let a user through to GET /me while contacts are stored
C25_Witness ==
    /\ last.op = "me"
    /\ last.status = 200
    /\ contacts # {}
    /\ users[last.uid].refresh_token # NoToken

\* C28: a request to an admin route whose token the gate resolves to a user
\* gets past get_current_admin_user exactly when the stored role of that
\* user is ADMIN at the time of the request, whatever role the token claims:
\* a token that says ADMIN is refused (403) once the record says USER, and a
\* token that says USER is let through once the record says ADMIN
C28_AdminUsesStoredRole ==
    (/\ last.op \in AdminOps
     /\ get_current_user(users, last.token, now) # 0)
      => /\ last.uid = get_current_user(users, last.token, now)
         /\ (last.status # 403) <=> (users[last.uid].role = ADMIN)

\* a token issued while its user was ADMIN, refused now that the record
\* says USER
C28_Witness ==
    /\ last.op = "update_user_role"
    /\ last.token.role = ADMIN
    /\ last.uid # 0
    /\ users[last.uid].role = USER
    /\ last.status = 403

\* a token issued while its user was USER, let through now that the record
\* says ADMIN
C28_WitnessGained ==
    /\ last.op = "update_user_role"
    /\ last.token.role = USER
    /\ last.uid # 0
    /\ users[last.uid].role = ADMIN
    /\ last.status # 403

\* the rows of the contacts table that do not belong to user u
NotOwnedBy(cs, u) == {c \in cs : c.owner_id # u}

C30_PasswordResetFrame ==
    [][(/\ last'.op = "reset_password_confirm"
        /\ last'.confirm_password = last'.password
        /\ verify_password_reset_token(last'.token, now) # NoEmail
        /\ Subject(users, last'.token) # 0)
         => /\ last'.status = 200
            /\ users' = [users EXCEPT
                            ![Subject(users, last'.token)].hashed_password =
                                get_password_hash(last'.password)]
            /\ \A tk \in issued :
                  get_current_user(users', tk, now) = get_current_user(users, tk, now)]_vars

\* the register requests for an email that have been answered
Registered(e) ==
    {c \in 1..Len(calls) :
        calls[c].op = "register" /\ calls[c].email = e /\ calls[c].pc = "done"}

\* C26: whatever the interleaving of concurrent register requests, no two
\* records hold the same email; of the requests answered for one email at
\* most one has created the record, and every other one has been refused
\* as a duplicate: 409 "Account already exists", with a record of that
\* email in the table
C26_EmailUniqueUnderConcurrency ==
    /\ \A i, j \in 1..Len(users) : (users[i].email = users[j].email) => (i = j)
    /\ \A e \in Emails :
        /\ Cardinality({c \in Registered(e) : calls[c].status = 201}) <= 1
        /\ Registered(e) # {} => get_user_by_email(users, e) # 0
        /\ \A c \in Registered(e) :
              calls[c].status # 201
                 => /\ calls[c].status = 409
                    /\ calls[c].detail = "Account already exists"

\* the part of C26 that holds: one record per email, one creator at most
C26_AtMostOneRecord ==
    /\ \A i, j \in 1..Len(users) : (users[i].email = users[j].email) => (i = j)
    /\ \A e \in Emails :
        /\ Cardinality({c \in Registered(e) : calls[c].status = 201}) <= 1
        /\ Registered(e) # {} => get_user_by_email(users, e) # 0
        /\ \A c \in Registered(e) : calls[c].status \in {201, 409, 500}

\* the refresh requests that have committed for user u
Refreshed(u) ==
    {c \in 1..Len(calls) :
        /\ calls[c].op = "refresh"
        /\ calls[c].status = 200
        /\ calls[c].uid = u}

\* C27: once two interleaved refresh requests for one user have both
\* committed, the stored refresh_token of the user is the refresh token of
\* the request that committed last, and the refresh token issued to the
\* request that committed before it is not accepted by POST /refresh
C27_ConcurrentRefresh ==
    \A u \in 1..Len(users) :
        \A c, d \in Refreshed(u) :
            (/\ calls[c].commit < calls[d].commit
             /\ \A e \in Refreshed(u) : calls[e].commit <= calls[d].commit)
              => /\ users[u].refresh_token = calls[d].refresh_token
                 /\ verify_access_token(calls[c].refresh_token, now) = NoToken

\* C23: on a route limited to 5 per minute a request of a client is served
\* while fewer than 5 requests of its key have been counted on that route in
\* the window, and answered 429 once 5 have been; it touches the counter of
\* no other route and of no other key; and limiter.reset() clears every
\* counter, so that the next request is served
C23_RateLimit ==
    [][/\ (last'.op \in LimitedRoutes)
            => /\ IF hits[last'.op][get_request_key(last'.client)] < LimitPerMinute
                  THEN last'.status # 429
                  ELSE last'.status = 429
               /\ \A route \in LimitedRoutes, key \in Keys :
                     (route # last'.op \/ key # get_request_key(last'.client))
                        => hits'[route][key] = hits[route][key]
       /\ (last'.op = "limiter_reset") => (hits' = NoHits)]_vars

\* the part of C23 that holds: the same of the requests that pass the
\* dependencies of their route
C23_RateLimitPastDependencies ==
    [][/\ (last'.op \in LimitedRoutes /\ last'.status # 401)
            => /\ IF hits[last'.op][get_request_key(last'.client)] < LimitPerMinute
                  THEN last'.status = 200
                  ELSE last'.status = 429
               /\ hits' = hit(hits, last'.op, get_request_key(last'.client))
       /\ (last'.op \in LimitedRoutes /\ last'.status = 401) => (hits' = hits)
       /\ (last'.op = "limiter_reset") => (hits' = NoHits)]_vars

====
